---- MODULE Spec2Model ----
(***************************************************************************)
(* Model of plugins/modules/na_ontap_service_policy.py: one module run     *)
(* (main) walks construction, the REST version gate, validate_inputs,      *)
(* get_actions and at most one of create / delete / modify, against a      *)
(* remote service holding service-policy records.  A run that ended may be *)
(* followed by another run with the identical desired state.               *)
(***************************************************************************)
EXTENDS Integers, Sequences, FiniteSets, TLC

\* ------------------------------------------------------------------ bounds
MaxServices == 2        \* longest services list given as input
MaxRuns == 3            \* consecutive runs of main() with the same desired state

\* ------------------------------------------------------------- vocabulary
None == "None"

\* a Python str as its sequence of characters (needed for the `in` operator)
K_services == <<"s", "e", "r", "v", "i", "c", "e", "s">>
K_service == <<"s", "e", "r", "v", "i", "c", "e">>
K_vices == <<"v", "i", "c", "e", "s">>
K_ipspace == <<"i", "p", "s", "p", "a", "c", "e">>
K_name == <<"n", "a", "m", "e">>

\* the keys a diff handed to modify_service_policy is drawn from
ModifyKeys == {K_services, K_service, K_vices, K_ipspace, K_name}

\* a subset of the 16 choices of the services option, the sentinel included
ServiceChoices == {"data_nfs", "data_cifs", "no_service"}

\* an optional list: Python None, or a list
NoneList == [isNone |-> TRUE, v |-> <<>>]
Some(l) == [isNone |-> FALSE, v |-> l]

ServiceLists == UNION {[1..k -> ServiceChoices] : k \in 0..MaxServices}

Elems(l) == {l[i] : i \in 1..Len(l)}

\* module.params as supplied by the playbook (an omitted option is None)
ParamSpace ==
    [state : {"present", "absent"},
     scope : {None, "cluster", "svm"},
     ipspace : {None, "Default"},
     vserver : {None, "vs1"},
     services : {NoneList} \cup {Some(l) : l \in ServiceLists}]

\* a record of the remote service, or the absent marker
NoRecord == [found |-> FALSE, uuid |-> 0, services |-> <<>>]
Record(u, s) == [found |-> TRUE, uuid |-> u, services |-> s]

\* the two places a policy of the given name can live: the cluster ipspace
\* and the vserver
Slots == {"cluster", "svm"}

\* a dict as a function from keys to values; the diff is None or a dict
EmptyDict == <<>>
NoneDict == [isNone |-> TRUE, d |-> EmptyDict]
Dict(d) == [isNone |-> FALSE, d |-> d]

VARIABLES
    params,       \* module.params
    check_mode,   \* module.check_mode
    parameters,   \* self.parameters
    pc,           \* position of the run
    remote,       \* the remote service: slot -> record
    remote0,      \* the remote service when the run started
    nextUuid,     \* next uuid the remote service assigns
    calls,        \* REST calls issued by the run, in order
    current,      \* record returned by the lookup
    cd_action,    \* create / delete / None
    modify,       \* the diff
    changed,      \* na_helper.changed
    fail_msg,     \* tag of the fail_json message, None if none
    response,     \* outcome of the last call on the service-policy API
    run,          \* number of the run
    prev          \* how the previous run ended

vars == <<params, check_mode, parameters, pc, remote, remote0, nextUuid, calls,
          current, cd_action, modify, changed, fail_msg, response, run, prev>>


\* ------------------------------------------------------- construction
\* required_if of the AnsibleModule call: (key, value, required option)
RequiredIf ==
    {<<"scope", "cluster", "ipspace">>,
     <<"scope", "svm", "vserver">>,
     <<"vserver", None, "ipspace">>}

\* required_one_of of the AnsibleModule call
RequiredOneOf == {"ipspace", "vserver"}

\* the declarative constraints AnsibleModule enforces before __init__ goes on
ArgumentSpecOk(p) ==
    /\ \A r \in RequiredIf : p[r[1]] = r[2] => p[r[3]] # None
    /\ \E k \in RequiredOneOf : p[k] # None

\* validate_inputs, the services part: [fail, parameters]
validate_services(p) ==
    LET services == p.services
    IN  IF ~services.isNone /\ services.v # <<>> /\ "no_service" \in Elems(services.v)
        THEN IF Len(services.v) > 1
             THEN [fail |-> "no_service", parameters |-> p]
             ELSE [fail |-> None, parameters |-> [p EXCEPT !.services = Some(<<>>)]]
        ELSE [fail |-> None, parameters |-> p]

\* validate_scope without the check of vserver under scope: cluster
validate_scope_accepts_cluster_vserver(p) ==
    IF p.scope = None
    THEN [fail |-> None,
          parameters |-> [p EXCEPT !.scope = IF p.vserver = None THEN "cluster" ELSE "svm"]]
    ELSE IF p.scope = "svm" /\ p.vserver = None
    THEN [fail |-> "svm_no_vserver", parameters |-> p]
    ELSE [fail |-> None, parameters |-> p]

\* validate_scope with the two sides of the conditional expression swapped
validate_scope_swapped(p) ==
    IF p.scope = None
    THEN [fail |-> None,
          parameters |-> [p EXCEPT !.scope = IF p.vserver = None THEN "svm" ELSE "cluster"]]
    ELSE IF p.scope = "cluster" /\ p.vserver # None
    THEN [fail |-> "cluster_vserver", parameters |-> p]
    ELSE IF p.scope = "svm" /\ p.vserver = None
    THEN [fail |-> "svm_no_vserver", parameters |-> p]
    ELSE [fail |-> None, parameters |-> p]

\* validate_inputs, the scope part: [fail, parameters]
validate_scope(p) ==
    LET scope == p.scope
    IN  IF scope = None
        THEN [fail |-> None,
              parameters |-> [p EXCEPT !.scope = IF p.vserver = None THEN "cluster" ELSE "svm"]]
        ELSE IF scope = "cluster" /\ p.vserver # None
        THEN [fail |-> "cluster_vserver", parameters |-> p]
        ELSE IF scope = "svm" /\ p.vserver = None
        THEN [fail |-> "svm_no_vserver", parameters |-> p]
        ELSE [fail |-> None, parameters |-> p]

\* validate_inputs: fail_json ends the run at the first error
validate_inputs(p) ==
    LET s == validate_services(p)
    IN  IF s.fail # None THEN s ELSE validate_scope(s.parameters)

\* ------------------------------------------------------- the remote service
NoQuery == [name |-> None, scope |-> None, svm_name |-> None, ipspace_name |-> None]
NoBody == [name |-> None, svm_name |-> None, ipspace |-> None, scope |-> None,
           services |-> NoneList]

Call(method, api, uuid, query, body, patch) ==
    [method |-> method, api |-> api, uuid |-> uuid, query |-> query, body |-> body,
     patch |-> patch]

\* the slots whose record a query selects
ServerGet(rem, q) ==
    {s \in Slots :
        /\ rem[s].found
        /\ q.scope = "cluster" => s = "cluster"
        /\ q.svm_name # None => (s = "svm" /\ q.svm_name = "vs1")
        /\ q.ipspace_name # None => q.ipspace_name = "Default"}

\* the answers the remote service can give to a query: a transport or API
\* error, more records than one, or the records that match
GetResponses(rem, q) ==
    LET hit == ServerGet(rem, q)
    IN  {[error |-> TRUE, num_records |-> 0, record |-> NoRecord],
         [error |-> FALSE, num_records |-> 2, record |-> NoRecord],
         [error |-> FALSE, num_records |-> Cardinality(hit),
          record |-> IF Cardinality(hit) = 1 THEN rem[CHOOSE s \in hit : TRUE] ELSE NoRecord]}

\* rrh.check_for_0_or_1_records: [error, record]
check_for_0_or_1_records(answer) ==
    IF answer.error THEN [error |-> TRUE, record |-> NoRecord]
    ELSE IF answer.num_records = 0 THEN [error |-> FALSE, record |-> NoRecord]
    ELSE IF answer.num_records = 1 THEN [error |-> FALSE, record |-> answer.record]
    ELSE [error |-> TRUE, record |-> NoRecord]

\* the slot a POST body creates its record in
BodySlot(body) == IF body.svm_name # None THEN "svm" ELSE "cluster"

\* a POST the remote service accepts
ServerPost(rem, body, uuid) ==
    [rem EXCEPT ![BodySlot(body)] =
        Record(uuid, IF body.services.isNone THEN <<>> ELSE body.services.v)]

\* a PATCH the remote service accepts: the record of that uuid takes the
\* services of the body, when the body has them
ServerPatch(rem, uuid, patch) ==
    [s \in Slots |->
        IF rem[s].found /\ rem[s].uuid = uuid /\ K_services \in DOMAIN patch
        THEN [rem[s] EXCEPT !.services = patch[K_services]]
        ELSE rem[s]]

\* a DELETE the remote service accepts
ServerDelete(rem, uuid) ==
    [s \in Slots |-> IF rem[s].found /\ rem[s].uuid = uuid THEN NoRecord ELSE rem[s]]

HasUuid(rem, uuid) == \E s \in Slots : rem[s].found /\ rem[s].uuid = uuid

\* ------------------------------------------------------- lookup and planner
\* lookup_query that asks for the cluster scope whatever the vserver is
lookup_query_cluster(p) ==
    [name |-> "svc1", scope |-> "cluster", svm_name |-> None, ipspace_name |-> p.ipspace]

\* the query get_service_policy builds
lookup_query(p) ==
    [name |-> "svc1",
     scope |-> IF p.vserver = None THEN "cluster" ELSE None,
     svm_name |-> IF p.vserver = None THEN None ELSE p.vserver,
     ipspace_name |-> p.ipspace]

\* get_service_policy without `if error: fail_json`
get_service_policy_ignores_error(answer) ==
    [fail |-> None, record |-> check_for_0_or_1_records(answer).record]

\* get_service_policy on an answer: [fail, record]
get_service_policy(answer) ==
    LET r == check_for_0_or_1_records(answer)
    IN  IF r.error THEN [fail |-> "get_service_policy", record |-> NoRecord]
        ELSE [fail |-> None, record |-> r.record]

\* NetAppModule.get_cd_action: [action, changed]
get_cd_action(cur, p) ==
    IF ~cur.found /\ p.state = "absent" THEN [action |-> None, changed |-> FALSE]
    ELSE IF cur.found /\ p.state = "present" THEN [action |-> None, changed |-> FALSE]
    ELSE IF cur.found THEN [action |-> "delete", changed |-> TRUE]
    ELSE [action |-> "create", changed |-> TRUE]

\* NetAppModule.get_modified_attributes: the diff over the mutable fields,
\* [modify, changed]
get_modified_attributes(cur, p) ==
    LET modified ==
            IF ~cur.found \/ p.services.isNone THEN EmptyDict
            ELSE IF Elems(cur.services) # Elems(p.services.v)
            THEN (K_services :> p.services.v)
            ELSE EmptyDict
    IN  [modify |-> Dict(modified), changed |-> modified # EmptyDict]

\* get_actions_modify without `if cd_action is None`
get_actions_modify_unguarded(cd_action_, cur, p) == get_modified_attributes(cur, p)

\* the modify of get_actions: computed only when cd_action is None
get_actions_modify(cd_action_, cur, p) ==
    IF cd_action_ = None THEN get_modified_attributes(cur, p)
    ELSE [modify |-> NoneDict, changed |-> FALSE]

\* get_actions on the answer to the lookup:
\* [fail, cd_action, modify, current, changed]
get_actions(answer, p) ==
    LET got == get_service_policy(answer)
        cd == get_cd_action(got.record, p)
        md == get_actions_modify(cd.action, got.record, p)
    IN  [fail |-> got.fail, cd_action |-> cd.action, modify |-> md.modify,
         current |-> got.record, changed |-> (cd.changed \/ md.changed)]

\* ------------------------------------------------------- mutators
\* create_body whose loop leaves services out
create_body_no_services(p) ==
    [name |-> "svc1", svm_name |-> p.vserver, ipspace |-> p.ipspace, scope |-> p.scope,
     services |-> NoneList]

\* the body create_service_policy posts; a key that is left out is None
create_body(p) ==
    [name |-> "svc1", svm_name |-> p.vserver, ipspace |-> p.ipspace, scope |-> p.scope,
     services |-> p.services]

\* Python's `a in b` on two strings
InStr(a, b) == \E i \in 0..(Len(b) - Len(a)) : SubSeq(b, i + 1, i + Len(a)) = a

\* `key in ('services')`: the parentheses make a string, not a tuple
modify_key_allowed(key) == InStr(key, K_services)

\* modify_service_policy up to the PATCH: [fail, uuid, body]
modify_service_policy(cur, mod) ==
    LET body == [k \in {key \in DOMAIN mod : modify_key_allowed(key)} |-> mod[k]]
        modify_copy == [k \in (DOMAIN mod) \ (DOMAIN body) |-> mod[k]]
    IN  [fail |-> IF modify_copy # EmptyDict THEN "modify_unsupported"
                  ELSE IF body = EmptyDict THEN "modify_nothing"
                  ELSE None,
         uuid |-> cur.uuid,
         body |-> body]

\* delete_uuid that does not take the uuid of the record
delete_uuid_other(cur) == cur.uuid + 1

\* the uuid delete_service_policy addresses
delete_uuid(cur) == cur.uuid

\* Python's truth value of the diff
Truthy(md) == ~md.isNone /\ md.d # EmptyDict

\* ApplyGate without `and not self.module.check_mode`
ApplyGate_ignores_check_mode == changed

\* `if self.na_helper.changed and not self.module.check_mode`
ApplyGate == changed /\ ~check_mode

\* ------------------------------------------------------- the run
InitialServices == {<<>>, <<"data_nfs">>}

SlotUuid(s) == IF s = "cluster" THEN 1 ELSE 2

InitialRemotes ==
    {rem \in [Slots -> {NoRecord} \cup {Record(u, sv) : u \in 1..2, sv \in InitialServices}] :
        \A s \in Slots : rem[s].found => rem[s].uuid = SlotUuid(s)}

NoResponse == [error |-> FALSE, num_records |-> 0]

NoPrev == [status |-> "none", check_mode |-> FALSE, changed |-> FALSE, cd_action |-> None,
           modify |-> NoneDict]

Init ==
    /\ params \in ParamSpace
    /\ check_mode \in BOOLEAN
    /\ parameters = params
    /\ pc = "init"
    /\ remote \in InitialRemotes
    /\ remote0 = remote
    /\ nextUuid = 3
    /\ calls = <<>>
    /\ current = NoRecord
    /\ cd_action = None
    /\ modify = NoneDict
    /\ changed = FALSE
    /\ fail_msg = None
    /\ response = NoResponse
    /\ run = 1
    /\ prev = NoPrev

\* module.fail_json: the run ends with an error message
fail_json(msg) ==
    /\ pc' = "failed"
    /\ fail_msg' = msg

\* __init__ up to set_parameters: AnsibleModule checks the declared
\* constraints, then the parameters are taken over
Construct ==
    /\ pc = "init"
    /\ IF ArgumentSpecOk(params)
       THEN /\ parameters' = params
            /\ pc' = "version"
            /\ UNCHANGED fail_msg
       ELSE /\ fail_json("missing_required")
            /\ UNCHANGED parameters
    /\ UNCHANGED <<params, check_mode, remote, remote0, nextUuid, calls, current, cd_action,
                   modify, changed, response, run, prev>>

\* __init__: OntapRestAPI and fail_if_not_rest_minimum_version ask the
\* remote service for its version
VersionGate ==
    /\ pc = "version"
    /\ calls' = Append(calls, Call("GET", "cluster", 0, NoQuery, NoBody, EmptyDict))
    /\ \E supported \in BOOLEAN :
          IF supported
          THEN pc' = "validate" /\ UNCHANGED fail_msg
          ELSE fail_json("rest_minimum_version")
    /\ UNCHANGED <<params, check_mode, parameters, remote, remote0, nextUuid, current,
                   cd_action, modify, changed, response, run, prev>>

\* __init__: the call of validate_inputs
ValidateInputs ==
    /\ pc = "validate"
    /\ LET r == validate_inputs(parameters)
       IN  IF r.fail # None
           THEN fail_json(r.fail) /\ UNCHANGED parameters
           ELSE /\ parameters' = r.parameters
                /\ pc' = "get_actions"
                /\ UNCHANGED fail_msg
    /\ UNCHANGED <<params, check_mode, remote, remote0, nextUuid, calls, current, cd_action,
                   modify, changed, response, run, prev>>

\* apply: the call of get_actions, with the lookup it makes
GetActions ==
    /\ pc = "get_actions"
    /\ LET query == lookup_query(parameters)
       IN  /\ calls' = Append(calls, Call("GET", "service-policies", 0, query, NoBody, EmptyDict))
           /\ \E answer \in GetResponses(remote, query) :
                 LET r == get_actions(answer, parameters)
                 IN  /\ response' = [error |-> answer.error, num_records |-> answer.num_records]
                     /\ IF r.fail # None
                        THEN /\ fail_json(r.fail)
                             /\ UNCHANGED <<current, cd_action, modify, changed>>
                        ELSE /\ current' = r.current
                             /\ cd_action' = r.cd_action
                             /\ modify' = r.modify
                             /\ changed' = r.changed
                             /\ pc' = "apply"
                             /\ UNCHANGED fail_msg
    /\ UNCHANGED <<params, check_mode, parameters, remote, remote0, nextUuid, run, prev>>

\* after a POST, PATCH or DELETE: `if error: fail_json(msg)`, else the
\* mutator returns and apply goes on to exit_json
after_call(error, msg, next_pc) ==
    /\ response' = [error |-> error, num_records |-> 0]
    /\ IF error
       THEN fail_json(msg)
       ELSE pc' = next_pc /\ UNCHANGED fail_msg

\* apply: create_service_policy, then exit_json
Create ==
    /\ pc = "apply"
    /\ ApplyGate
    /\ cd_action = "create"
    /\ LET body == create_body(parameters)
       IN  /\ calls' = Append(calls, Call("POST", "service-policies", 0, NoQuery, body, EmptyDict))
           /\ \E error \in (IF remote[BodySlot(body)].found THEN {TRUE} ELSE BOOLEAN) :
                 /\ remote' = IF error THEN remote ELSE ServerPost(remote, body, nextUuid)
                 /\ nextUuid' = IF error THEN nextUuid ELSE nextUuid + 1
                 /\ after_call(error, "create_service_policy", "done")
    /\ UNCHANGED <<params, check_mode, parameters, remote0, current, cd_action, modify,
                   changed, run, prev>>

\* apply: delete_service_policy, then exit_json
Delete ==
    /\ pc = "apply"
    /\ ApplyGate
    /\ cd_action = "delete"
    /\ LET uuid == delete_uuid(current)
       IN  /\ calls' = Append(calls, Call("DELETE", "service-policies", uuid, NoQuery, NoBody, EmptyDict))
           /\ \E error \in (IF HasUuid(remote, uuid) THEN BOOLEAN ELSE {TRUE}) :
                 /\ remote' = IF error THEN remote ELSE ServerDelete(remote, uuid)
                 /\ after_call(error, "delete_service_policy", "done")
    /\ UNCHANGED <<params, check_mode, parameters, remote0, nextUuid, current, cd_action,
                   modify, changed, run, prev>>

\* modify_service_policy(current, modify) with the PATCH it makes
CallModify(next_pc) ==
    LET m == modify_service_policy(current, modify.d)
    IN  IF m.fail # None
        THEN fail_json(m.fail) /\ UNCHANGED <<remote, calls, response>>
        ELSE /\ calls' = Append(calls, Call("PATCH", "service-policies", m.uuid, NoQuery, NoBody, m.body))
             /\ \E error \in (IF HasUuid(remote, m.uuid) THEN BOOLEAN ELSE {TRUE}) :
                   /\ remote' = IF error THEN remote ELSE ServerPatch(remote, m.uuid, m.body)
                   /\ after_call(error, "modify_service_policy", next_pc)

\* apply: modify_service_policy, then exit_json
Modify ==
    /\ pc = "apply"
    /\ ApplyGate
    /\ cd_action \notin {"create", "delete"}
    /\ Truthy(modify)
    /\ CallModify("done")
    /\ UNCHANGED <<params, check_mode, parameters, remote0, nextUuid, current, cd_action,
                   modify, changed, run, prev>>

\* apply: no mutator is called, exit_json
ExitJson ==
    /\ pc = "apply"
    /\ ~(ApplyGate /\ (cd_action \in {"create", "delete"} \/ Truthy(modify)))
    /\ pc' = "done"
    /\ UNCHANGED <<params, check_mode, parameters, remote, remote0, nextUuid, calls, current,
                   cd_action, modify, changed, fail_msg, response, run, prev>>

\* main() is run again with the identical desired state
Main ==
    /\ pc \in {"done", "failed"}
    /\ run < MaxRuns
    /\ prev' = [status |-> pc, check_mode |-> check_mode, changed |-> changed,
                cd_action |-> cd_action, modify |-> modify]
    /\ run' = run + 1
    /\ check_mode' \in BOOLEAN
    /\ parameters' = params
    /\ pc' = "init"
    /\ remote0' = remote
    /\ calls' = <<>>
    /\ current' = NoRecord
    /\ cd_action' = None
    /\ modify' = NoneDict
    /\ changed' = FALSE
    /\ fail_msg' = None
    /\ response' = NoResponse
    /\ UNCHANGED <<params, remote, nextUuid>>

Next ==
    \/ Construct
    \/ VersionGate
    \/ ValidateInputs
    \/ GetActions
    \/ Create
    \/ Delete
    \/ Modify
    \/ ExitJson
    \/ Main

Spec == Init /\ [][Next]_vars

\* ------------------------------------------- modify_service_policy alone
\* the values a diff gives to a key
ModifyValues == {<<>>, <<"data_nfs">>}

\* every dict over ModifyKeys
ModifyDicts == UNION {[ks -> ModifyValues] : ks \in SUBSET ModifyKeys}

\* modify_service_policy is called with a record of the remote service and
\* any diff
InitModify ==
    /\ params \in {q \in ParamSpace : q.state = "present" /\ q.scope = "svm" /\ q.vserver = "vs1"
                                      /\ q.ipspace = None /\ q.services.isNone}
    /\ check_mode = FALSE
    /\ parameters = params
    /\ pc = "call_modify"
    /\ remote \in {rem \in InitialRemotes : rem["svm"].found /\ ~rem["cluster"].found}
    /\ remote0 = remote
    /\ nextUuid = 3
    /\ calls = <<>>
    /\ current = remote["svm"]
    /\ cd_action = None
    /\ modify \in {Dict(d) : d \in ModifyDicts}
    /\ changed = TRUE
    /\ fail_msg = None
    /\ response = NoResponse
    /\ run = 1
    /\ prev = NoPrev

ModifyCalled ==
    /\ pc = "call_modify"
    /\ CallModify("returned")
    /\ UNCHANGED <<params, check_mode, parameters, remote0, nextUuid, current, cd_action,
                   modify, changed, run, prev>>

NextModify == ModifyCalled

SpecModify == InitModify /\ [][NextModify]_vars

\* ------------------------------------------------------------- properties
Mutating == {"POST", "PATCH", "DELETE"}

MutatingCalls == {i \in DOMAIN calls : calls[i].method \in Mutating}

Lookups == {i \in DOMAIN calls : calls[i].method = "GET" /\ calls[i].api = "service-policies"}

MutatorErrors ==
    {"create_service_policy", "delete_service_policy", "modify_service_policy",
     "modify_unsupported", "modify_nothing"}

\* get_actions has returned in this run
Planned == pc \in {"apply", "done"} \/ (pc = "failed" /\ fail_msg \in MutatorErrors)

\* the place the desired policy lives in
TargetSlot == IF params.vserver = None THEN "cluster" ELSE "svm"

\* the services the desired state asks for, the sentinel taken out
DesiredServices == Elems(params.services.v) \ {"no_service"}

\* the desired state names services and they differ from the record's
ServicesDiffer ==
    /\ ~params.services.isNone
    /\ Elems(current.services) # DesiredServices

\* C1: get_actions plans create for (not found, present), delete for
\* (found, absent), modify with the diff for (found, present) with a
\* non-empty diff, and nothing otherwise; the diff is computed only when
\* cd_action is None, so no run has both a create/delete action and a diff,
\* and changed is set iff there is an action or a non-empty diff.
C1_PlannerTable ==
    Planned =>
        LET found == current.found
            present == params.state = "present"
        IN  /\ (~found /\ present) => (cd_action = "create" /\ modify = NoneDict)
            /\ (found /\ ~present) => (cd_action = "delete" /\ modify = NoneDict)
            /\ (found /\ present /\ ServicesDiffer) =>
                  (cd_action = None /\ modify = Dict(K_services :> parameters.services.v))
            /\ (found /\ present /\ ~ServicesDiffer) =>
                  (cd_action = None /\ modify = Dict(EmptyDict))
            /\ (~found /\ ~present) => (cd_action = None /\ ~Truthy(modify))
            /\ ~(cd_action # None /\ Truthy(modify))
            /\ changed <=> (cd_action # None \/ Truthy(modify))

C1_Witness ==
    /\ pc = "apply"
    /\ current.found
    /\ params.state = "present"
    /\ Truthy(modify)

C3_Converged ==
    (pc = "done" /\ ~check_mode) =>
        LET now == remote[TargetSlot]
            before == remote0[TargetSlot]
        IN  /\ now.found <=> params.state = "present"
            /\ (now.found /\ ~params.services.isNone) => Elems(now.services) = DesiredServices
            /\ \A s \in Slots \ {TargetSlot} : remote[s] = remote0[s]
            /\ cd_action = "create" => (~before.found /\ now.found /\ Cardinality(MutatingCalls) = 1)
            /\ cd_action = "delete" => (before.found /\ ~now.found /\ Cardinality(MutatingCalls) = 1)
            /\ Truthy(modify) =>
                  /\ before.found
                  /\ now = [before EXCEPT !.services = modify.d[K_services]]
                  /\ Elems(before.services) # Elems(now.services)
                  /\ Cardinality(MutatingCalls) = 1
            /\ (cd_action = None /\ ~Truthy(modify)) => (remote = remote0 /\ MutatingCalls = {})

C3_Witness ==
    /\ pc = "done"
    /\ ~check_mode
    /\ cd_action = "create"
    /\ remote[TargetSlot].services = <<"data_cifs", "data_nfs">>

\* C4: a run in check mode issues no POST, PATCH or DELETE and leaves the
\* remote service as it was, still makes the lookup and plans, and reports
\* the changed flag, cd_action and diff that the real run made next from the
\* same remote state reports.
C4_CheckModeGate ==
    /\ check_mode => (MutatingCalls = {} /\ remote = remote0)
    /\ (check_mode /\ pc = "done") => Cardinality(Lookups) = 1
    /\ (prev.status = "done" /\ prev.check_mode /\ Planned) =>
          /\ changed = prev.changed
          /\ cd_action = prev.cd_action
          /\ modify = prev.modify

C4_Witness ==
    /\ pc = "done"
    /\ ~check_mode
    /\ prev.status = "done"
    /\ prev.check_mode
    /\ prev.changed
    /\ Truthy(modify)

\* the parameter combinations the input checks are to reject
NoServiceWithOther ==
    /\ "no_service" \in Elems(params.services.v)
    /\ Elems(params.services.v) # {"no_service"}

ClusterWithVserver == params.scope = "cluster" /\ params.vserver # None

SvmWithoutVserver == params.scope = "svm" /\ params.vserver = None

NeitherIpspaceNorVserver == params.ipspace = None /\ params.vserver = None

InvalidInput ==
    NoServiceWithOther \/ ClusterWithVserver \/ SvmWithoutVserver \/ NeitherIpspaceNorVserver

\* the messages of the input checks
ValidationErrors == {"missing_required", "no_service", "cluster_vserver", "svm_no_vserver"}

\* validate_inputs has returned in this run
Validated ==
    \/ pc \in {"get_actions", "apply", "done"}
    \/ pc = "failed" /\ fail_msg \in MutatorErrors \cup {"get_service_policy"}

C7_ScopeNormalized ==
    Validated =>
        /\ parameters.scope \in {"cluster", "svm"}
        /\ parameters.scope = "cluster" => (parameters.ipspace # None /\ parameters.vserver = None)
        /\ parameters.scope = "svm" => parameters.vserver # None
        /\ params.scope = None =>
              parameters.scope = (IF params.vserver # None THEN "svm" ELSE "cluster")
        /\ params.scope # None => parameters.scope = params.scope
        /\ parameters.ipspace = params.ipspace
        /\ parameters.vserver = params.vserver
        /\ ~ClusterWithVserver
        /\ ~SvmWithoutVserver
        /\ ~NeitherIpspaceNorVserver
        /\ ~(params.scope = "cluster" /\ params.ipspace = None)

C7_Witness ==
    /\ pc = "get_actions"
    /\ params.scope = None
    /\ parameters.scope = "svm"
    /\ params.ipspace = None

\* C8 as stated: a services list whose only value is no_service is
\* normalized to the empty list before any comparison or request on the
\* policy, a list with no_service and another value is rejected, and a list
\* without no_service is left as it is.
C8_NoServiceNormalized ==
    /\ (~params.services.isNone /\ Elems(params.services.v) = {"no_service"}) =>
          /\ fail_msg # "no_service"
          /\ Validated => parameters.services = Some(<<>>)
    /\ NoServiceWithOther => ~Validated
    /\ (Validated /\ "no_service" \notin Elems(params.services.v)) =>
          parameters.services = params.services

\* C9: a run makes the lookup first and once, then at most one of POST,
\* PATCH and DELETE; a PATCH or DELETE is made only when the lookup returned
\* a record, and goes to the uuid of that record.
C9_CallDiscipline ==
    /\ Cardinality(Lookups) <= 1
    /\ (Planned \/ fail_msg = "get_service_policy") => Cardinality(Lookups) = 1
    /\ Cardinality(MutatingCalls) <= 1
    /\ \A i \in DOMAIN calls :
          calls[i].api = "service-policies" =>
              \E j \in Lookups : j <= i /\ \A k \in DOMAIN calls : (k < j => calls[k].api = "cluster")
    /\ \A i \in MutatingCalls :
          /\ i = Len(calls)
          /\ \E j \in Lookups : j < i
          /\ calls[i].method \in {"PATCH", "DELETE"} =>
                /\ current.found
                /\ current = remote0[TargetSlot]
                /\ calls[i].uuid = current.uuid

C9_Witness ==
    /\ pc = "done"
    /\ Len(calls) = 3
    /\ calls[3].method = "DELETE"

\* C10: a lookup that returns an error or more than one record ends the run
\* in the error of get_service_policy with no POST, PATCH or DELETE made; a
\* create, modify or delete that returns an error ends the run in the error
\* of that operation, with nothing reported as done and the remote service
\* as it was before the call.
C10_RemoteErrorsTerminal ==
    /\ (response.error \/ response.num_records > 1) =>
          /\ pc = "failed"
          /\ calls # <<>>
          /\ remote = remote0
          /\ LET last == calls[Len(calls)]
             IN  /\ last.method = "GET" =>
                       (fail_msg = "get_service_policy" /\ MutatingCalls = {})
                 /\ last.method = "POST" => fail_msg = "create_service_policy"
                 /\ last.method = "PATCH" => fail_msg = "modify_service_policy"
                 /\ last.method = "DELETE" => fail_msg = "delete_service_policy"
    /\ (pc = "failed" /\ fail_msg = "get_service_policy") =>
          (MutatingCalls = {} /\ (response.error \/ response.num_records > 1))
    /\ (pc = "failed" /\ fail_msg \in {"create_service_policy", "modify_service_policy",
                                       "delete_service_policy"}) =>
          (response.error /\ remote = remote0 /\ Cardinality(MutatingCalls) = 1)

C10_Witness ==
    /\ pc = "failed"
    /\ fail_msg = "modify_service_policy"
    /\ response.error
    /\ calls[Len(calls)].method = "PATCH"

\* C6 as stated: modify_service_policy fails with the unsupported-attributes
\* error and makes no PATCH for a diff with any key other than services,
\* fails with the nothing-to-change error and makes no PATCH for an empty
\* diff, and a PATCH it makes has the one key services with the diff's value.
C6_ModifyOnlyServices ==
    pc # "call_modify" =>
        /\ (\E k \in DOMAIN modify.d : k # K_services) =>
              (pc = "failed" /\ fail_msg = "modify_unsupported" /\ calls = <<>>)
        /\ modify.d = EmptyDict =>
              (pc = "failed" /\ fail_msg = "modify_nothing" /\ calls = <<>>)
        /\ \A i \in DOMAIN calls :
              calls[i].method = "PATCH" =>
                  /\ DOMAIN calls[i].patch = {K_services}
                  /\ calls[i].patch[K_services] = modify.d[K_services]

====
